---- MODULE Spec2Model ----
(***************************************************************************)
(* Model of app.py, the Streamlit "Legal Document Summarizer":             *)
(* text extraction (PDF / DOCX), one call to the model service, recovery   *)
(* of a JSON record from the reply (safe_parse_json) and the rendering of  *)
(* its three sections.                                                     *)
(*                                                                         *)
(* Python strings are TLA+ strings, read character by character with       *)
(* SubSeq.  The module text cannot contain the backquote character inside  *)
(* a string, so the tilde stands for it throughout: "~~~" is the code      *)
(* fence of three backquotes.  No input of the model contains a real       *)
(* tilde.                                                                  *)
(***************************************************************************)
EXTENDS Integers, Sequences, FiniteSets, TLC

VARIABLES
    api_key,        \* GEMINI_API_KEY as read at the top of the script
    uploaded_file,  \* what st.file_uploader holds
    pc,             \* where the current run of the script stands
    clicked,        \* whether this run was started by "Summarize Document"
    document_text,  \* main's local document_text
    screen,         \* the elements the current run has put on the page
    response_text,  \* the text of the model service's reply
    clean_text,     \* safe_parse_json's local clean_text
    result,         \* main's local result
    raised,         \* the exception that ended the run, "" when none
    requests,       \* generate_content calls issued so far
    clicks,         \* presses of "Summarize Document" so far
    runs            \* runs of the script started by the user so far

vars == <<api_key, uploaded_file, pc, clicked, document_text, screen,
          response_text, clean_text, result, raised, requests, clicks, runs>>

-----------------------------------------------------------------------------
(* Bounds of the model *)

MaxPages == 3
MaxParas == 3
MaxLines == 3
MaxRuns == 3

-----------------------------------------------------------------------------
(* Python str helpers *)

Ch(s, i) == SubSeq(s, i, i)

StartsWithAt(s, i, p) ==
    /\ i >= 1
    /\ i + Len(p) - 1 <= Len(s)
    /\ SubSeq(s, i, i + Len(p) - 1) = p

\* str.isspace for the characters of the model's alphabet
IsSpace(c) == c \in {" ", "\n", "\t", "\r"}

RECURSIVE LStripFrom(_, _)
LStripFrom(s, i) ==
    IF i > Len(s) THEN ""
    ELSE IF IsSpace(Ch(s, i)) THEN LStripFrom(s, i + 1)
    ELSE SubSeq(s, i, Len(s))

RECURSIVE RStripTo(_, _)
RStripTo(s, j) ==
    IF j < 1 THEN ""
    ELSE IF IsSpace(Ch(s, j)) THEN RStripTo(s, j - 1)
    ELSE SubSeq(s, 1, j)

\* str.strip()
Strip(s) == LStripFrom(RStripTo(s, Len(s)), 1)

\* sep.join(parts)
RECURSIVE Join(_, _)
Join(parts, sep) ==
    IF Len(parts) = 0 THEN ""
    ELSE IF Len(parts) = 1 THEN parts[1]
    ELSE parts[1] \o sep \o Join(Tail(parts), sep)

-----------------------------------------------------------------------------
(* Text extraction *)

\* What page.extract_text() yields for one page: None or a str
NoPageText == [isNone |-> TRUE, s |-> ""]
PageText(t) == [isNone |-> FALSE, s |-> t]

\* Python truthiness of a page's content ("if content:")
Truthy(content) == ~content.isNone /\ content.s # ""

\* PdfLoop without the truthiness test: every page adds a line
RECURSIVE PdfLoop_Placeholder(_, _, _)
PdfLoop_Placeholder(pages, i, text) ==
    IF i > Len(pages) THEN text
    ELSE PdfLoop_Placeholder(pages, i + 1, text \o pages[i].s \o "\n")

RECURSIVE PdfLoop(_, _, _)
PdfLoop(pages, i, text) ==
    IF i > Len(pages) THEN text
    ELSE IF Truthy(pages[i])
         THEN PdfLoop(pages, i + 1, text \o pages[i].s \o "\n")
         ELSE PdfLoop(pages, i + 1, text)

extract_text_from_pdf(file) == Strip(PdfLoop(file.pages, 1, ""))

\* extract_text_from_docx that leaves the empty paragraphs out
extract_text_from_docx_SkipEmpty(file) ==
    Strip(Join(SelectSeq(file.paragraphs, LAMBDA x : x # ""), "\n"))

extract_text_from_docx(file) == Strip(Join(file.paragraphs, "\n"))

-----------------------------------------------------------------------------
(* re.sub(r"^~~~(?:json)?|~~~$", "", s, flags=re.MULTILINE) *)

Fence == "~~~"

\* "^" under re.MULTILINE: start of the string or just after a newline
AtLineStart(s, i) == i = 1 \/ Ch(s, i - 1) = "\n"

\* "$" under re.MULTILINE: end of the string or just before a newline
AtLineEnd(s, i) == i > Len(s) \/ Ch(s, i) = "\n"

\* FenceMatchLen without "(?:json)?": the tag stays in the text
FenceMatchLen_NoTag(s, i) ==
    IF ~StartsWithAt(s, i, Fence) THEN 0
    ELSE IF AtLineStart(s, i) THEN 3
    ELSE IF AtLineEnd(s, i + 3) THEN 3
    ELSE 0

\* FenceMatchLen without re.MULTILINE: "^" and "$" are those of the string
FenceMatchLen_NotMultiline(s, i) ==
    IF ~StartsWithAt(s, i, Fence) THEN 0
    ELSE IF i = 1
         THEN (IF StartsWithAt(s, i + 3, "json") THEN 7 ELSE 3)
    ELSE IF i + 3 > Len(s) THEN 3
    ELSE 0

\* Length of the match of the pattern at position i, 0 when there is none.
\* The first alternative is tried first and "(?:json)?" is greedy.
FenceMatchLen(s, i) ==
    IF ~StartsWithAt(s, i, Fence) THEN 0
    ELSE IF AtLineStart(s, i)
         THEN (IF StartsWithAt(s, i + 3, "json") THEN 7 ELSE 3)
    ELSE IF AtLineEnd(s, i + 3) THEN 3
    ELSE 0

\* The scan of re.sub from position i: the text up to the leftmost match is
\* kept, the match is dropped, and the scan goes on after it
RECURSIVE FenceSubFrom(_, _)
FenceSubFrom(s, i) ==
    LET starts == {j \in i..Len(s) : FenceMatchLen(s, j) > 0}
    IN IF starts = {} THEN SubSeq(s, i, Len(s))
       ELSE LET m == CHOOSE j \in starts : \A k \in starts : j <= k
            IN SubSeq(s, i, m - 1) \o FenceSubFrom(s, m + FenceMatchLen(s, m))

\* clean_text of safe_parse_json
CleanText(response_text_) == FenceSubFrom(Strip(response_text_), 1)

-----------------------------------------------------------------------------
(* Python values produced by json.loads: None, bool, int, str, list, dict. *)
(* Every value has the same fields; the tag t tells which ones count.      *)

PyNone == [t |-> "None", s |-> "", n |-> 0, keys |-> <<>>, items |-> <<>>]
PyBool(b) == [t |-> "bool", s |-> "", n |-> IF b THEN 1 ELSE 0,
              keys |-> <<>>, items |-> <<>>]
PyInt(k) == [t |-> "int", s |-> "", n |-> k, keys |-> <<>>, items |-> <<>>]
PyStr(x) == [t |-> "str", s |-> x, n |-> 0, keys |-> <<>>, items |-> <<>>]
PyList(xs) == [t |-> "list", s |-> "", n |-> 0, keys |-> <<>>, items |-> xs]
PyDict(ks, vs) == [t |-> "dict", s |-> "", n |-> 0, keys |-> ks, items |-> vs]

IsDict(v) == v.t = "dict"
IsList(v) == v.t = "list"
IsStr(v) == v.t = "str"

HasKey(d, k) == \E j \in 1..Len(d.keys) : d.keys[j] = k

\* d[k] = v: a repeated key keeps its place and takes the last value
DictSet(d, k, v) ==
    IF HasKey(d, k)
    THEN PyDict(d.keys,
                [j \in 1..Len(d.items) |->
                    IF d.keys[j] = k THEN v ELSE d.items[j]])
    ELSE PyDict(Append(d.keys, k), Append(d.items, v))

\* d.get(k, default)
DictGet(d, k, default) ==
    IF HasKey(d, k)
    THEN d.items[CHOOSE j \in 1..Len(d.keys) : d.keys[j] = k]
    ELSE default

-----------------------------------------------------------------------------
(* json.loads, strict mode, for the JSON of the model's alphabet: objects, *)
(* arrays, strings with the escapes \" \\ \/ \n \t \r, integers, true,     *)
(* false and null.  A scan yields ok, the value and the position after it. *)

Scanned(v, p) == [ok |-> TRUE, val |-> v, pos |-> p]
ScanError == [ok |-> FALSE, val |-> PyNone, pos |-> 0]

IsJsonSpace(c) == c \in {" ", "\t", "\n", "\r"}
IsDigit(c) == c \in {"0", "1", "2", "3", "4", "5", "6", "7", "8", "9"}
DigitVal(c) == CASE c = "0" -> 0 [] c = "1" -> 1 [] c = "2" -> 2
                 [] c = "3" -> 3 [] c = "4" -> 4 [] c = "5" -> 5
                 [] c = "6" -> 6 [] c = "7" -> 7 [] c = "8" -> 8
                 [] c = "9" -> 9

RECURSIVE SkipSpace(_, _)
SkipSpace(s, i) ==
    IF i <= Len(s) /\ IsJsonSpace(Ch(s, i)) THEN SkipSpace(s, i + 1) ELSE i

\* The character an escape sequence stands for, "" when it is not one
Unescape(c) == CASE c = "\"" -> "\""
                 [] c = "\\" -> "\\"
                 [] c = "/" -> "/"
                 [] c = "n" -> "\n"
                 [] c = "t" -> "\t"
                 [] c = "r" -> "\r"
                 [] OTHER -> ""

\* scanstring: i is the position after the opening quote
RECURSIVE ScanString(_, _, _)
ScanString(s, i, acc) ==
    IF i > Len(s) THEN ScanError
    ELSE LET c == Ch(s, i)
         IN IF c = "\"" THEN Scanned(PyStr(acc), i + 1)
            ELSE IF c \in {"\n", "\t", "\r"} THEN ScanError
            ELSE IF c = "\\"
                 THEN IF i + 1 > Len(s) \/ Unescape(Ch(s, i + 1)) = ""
                      THEN ScanError
                      ELSE ScanString(s, i + 2, acc \o Unescape(Ch(s, i + 1)))
            ELSE ScanString(s, i + 1, acc \o c)

\* the digits of an integer: i is at a digit, k is the value so far
RECURSIVE ScanDigits(_, _, _)
ScanDigits(s, i, k) ==
    IF i <= Len(s) /\ IsDigit(Ch(s, i))
    THEN ScanDigits(s, i + 1, 10 * k + DigitVal(Ch(s, i)))
    ELSE Scanned(PyInt(k), i)

\* NUMBER_RE "(-?(?:0|[1-9]\d*))": a leading 0 is a number on its own
ScanNumber(s, i) ==
    LET neg == StartsWithAt(s, i, "-")
        j == IF neg THEN i + 1 ELSE i
    IN IF j > Len(s) \/ ~IsDigit(Ch(s, j)) THEN ScanError
       ELSE LET r == IF Ch(s, j) = "0" THEN Scanned(PyInt(0), j + 1)
                     ELSE ScanDigits(s, j, 0)
            IN IF neg THEN Scanned(PyInt(0 - r.val.n), r.pos) ELSE r

RECURSIVE ScanOnce(_, _), ScanMembers(_, _, _), ScanElements(_, _, _)

\* JSONObject's loop: i is at the quote that opens a key
ScanMembers(s, i, d) ==
    LET key == ScanString(s, i + 1, "")
        colon == SkipSpace(s, key.pos)
        value == ScanOnce(s, SkipSpace(s, colon + 1))
        after == SkipSpace(s, value.pos)
        next == SkipSpace(s, after + 1)
    IN IF ~key.ok THEN ScanError
       ELSE IF ~StartsWithAt(s, colon, ":") THEN ScanError
       ELSE IF ~value.ok THEN ScanError
       ELSE IF StartsWithAt(s, after, "}")
            THEN Scanned(DictSet(d, key.val.s, value.val), after + 1)
       ELSE IF ~StartsWithAt(s, after, ",") THEN ScanError
       ELSE IF ~StartsWithAt(s, next, "\"") THEN ScanError
       ELSE ScanMembers(s, next, DictSet(d, key.val.s, value.val))

\* JSONArray's loop: i is where an element must start
ScanElements(s, i, xs) ==
    LET value == ScanOnce(s, i)
        after == SkipSpace(s, value.pos)
    IN IF ~value.ok THEN ScanError
       ELSE IF StartsWithAt(s, after, "]")
            THEN Scanned(PyList(Append(xs, value.val)), after + 1)
       ELSE IF ~StartsWithAt(s, after, ",") THEN ScanError
       ELSE ScanElements(s, SkipSpace(s, after + 1), Append(xs, value.val))

\* scan_once: the value that starts at position i
ScanOnce(s, i) ==
    IF i > Len(s) THEN ScanError
    ELSE LET c == Ch(s, i)
             j == SkipSpace(s, i + 1)
         IN IF c = "\"" THEN ScanString(s, i + 1, "")
            ELSE IF c = "{"
                 THEN IF StartsWithAt(s, j, "}")
                      THEN Scanned(PyDict(<<>>, <<>>), j + 1)
                      ELSE IF StartsWithAt(s, j, "\"")
                           THEN ScanMembers(s, j, PyDict(<<>>, <<>>))
                           ELSE ScanError
            ELSE IF c = "["
                 THEN IF StartsWithAt(s, j, "]")
                      THEN Scanned(PyList(<<>>), j + 1)
                      ELSE ScanElements(s, j, <<>>)
            ELSE IF StartsWithAt(s, i, "null") THEN Scanned(PyNone, i + 4)
            ELSE IF StartsWithAt(s, i, "true")
                 THEN Scanned(PyBool(TRUE), i + 4)
            ELSE IF StartsWithAt(s, i, "false")
                 THEN Scanned(PyBool(FALSE), i + 5)
            ELSE ScanNumber(s, i)

\* json.loads(s): ok is FALSE where it raises JSONDecodeError
JsonLoads(s) ==
    LET r == ScanOnce(s, SkipSpace(s, 1))
    IN IF ~r.ok THEN ScanError
       ELSE IF SkipSpace(s, r.pos) # Len(s) + 1 THEN ScanError
       ELSE r

-----------------------------------------------------------------------------
(* safe_parse_json *)

ParseWarning == "Could not parse Gemini response as JSON. Showing raw response."

\* The dict the except branch returns
DegradedRecord(response_text_) ==
    PyDict(<<"summary", "highlights", "glossary">>,
           <<PyStr(response_text_), PyNone, PyNone>>)

\* safe_parse_json whose fallback keeps the cleaned text, not the raw reply
safe_parse_json_CleanedSummary(response_text_) ==
    LET loaded == JsonLoads(CleanText(response_text_))
    IN IF loaded.ok
       THEN [value |-> loaded.val, warned |-> FALSE]
       ELSE [value |-> DegradedRecord(CleanText(response_text_)),
             warned |-> TRUE]

\* safe_parse_json that fills a missing highlights or glossary with an
\* empty container
safe_parse_json_Defaults(response_text_) ==
    LET loaded == JsonLoads(CleanText(response_text_))
        filled(d) ==
            LET h == IF HasKey(d, "highlights") THEN d
                     ELSE DictSet(d, "highlights", PyList(<<>>))
            IN IF HasKey(h, "glossary") THEN h
               ELSE DictSet(h, "glossary", PyDict(<<>>, <<>>))
    IN IF loaded.ok
       THEN [value |-> IF IsDict(loaded.val) THEN filled(loaded.val)
                       ELSE loaded.val,
             warned |-> FALSE]
       ELSE [value |-> DegradedRecord(response_text_), warned |-> TRUE]

\* value: what the function returns; warned: whether st.error was called
safe_parse_json(response_text_) ==
    LET loaded == JsonLoads(CleanText(response_text_))
    IN IF loaded.ok
       THEN [value |-> loaded.val, warned |-> FALSE]
       ELSE [value |-> DegradedRecord(response_text_), warned |-> TRUE]

-----------------------------------------------------------------------------
(* The page: a sequence of elements, each a widget kind w with its string  *)
(* s and, for st.write and st.table, the Python value val it shows.        *)

Elem(w, s) == [w |-> w, s |-> s, val |-> PyNone]
ElemVal(w, v) == [w |-> w, s |-> "", val |-> v]

Shows(e) == \E j \in 1..Len(screen) : screen[j] = e
ShowsKind(w) == \E j \in 1..Len(screen) : screen[j].w = w

\* all(isinstance(item, dict) for item in highlights)
AllDicts(xs) == \A j \in 1..Len(xs) : IsDict(xs[j])

NoHighlights == "No highlights available."
NoGlossary == "No glossary available."

\* render_highlights without the test of the elements
render_highlights_AnyList(highlights) ==
    IF IsList(highlights) THEN ElemVal("table", highlights)
    ELSE IF IsStr(highlights) THEN Elem("markdown", highlights.s)
    ELSE Elem("info", "No highlights available.")

\* The element render_highlights puts on the page
render_highlights(highlights) ==
    IF IsList(highlights) /\ AllDicts(highlights.items)
    THEN ElemVal("table", highlights)
    ELSE IF IsStr(highlights) THEN Elem("markdown", highlights.s)
    ELSE Elem("info", NoHighlights)

\* glossary_list of render_glossary
GlossaryList(glossary) ==
    PyList([j \in 1..Len(glossary.keys) |->
               PyDict(<<"Term", "Explanation">>,
                      <<PyStr(glossary.keys[j]), glossary.items[j]>>)])

\* The element render_glossary puts on the page
render_glossary(glossary) ==
    IF IsDict(glossary) THEN ElemVal("table", GlossaryList(glossary))
    ELSE IF IsStr(glossary) THEN Elem("markdown", glossary.s)
    ELSE Elem("info", NoGlossary)

-----------------------------------------------------------------------------
(* Inputs: the files a user can upload and the replies of the service *)

PdfType == "application/pdf"
DocxType ==
    "application/vnd.openxmlformats-officedocument.wordprocessingml.document"

SeqsUpTo(S, n) == UNION {[1..k -> S] : k \in 0..n}

PageContents == {NoPageText, PageText(""), PageText("A"), PageText(" B\n")}
ParaTexts == {"", "A", " B "}

NoFile == [type |-> "", pages |-> <<>>, paragraphs |-> <<>>]

PdfFiles == {[type |-> PdfType, pages |-> ps, paragraphs |-> <<>>] :
                ps \in SeqsUpTo(PageContents, MaxPages)}
DocxFiles == {[type |-> DocxType, pages |-> <<>>, paragraphs |-> ps] :
                 ps \in SeqsUpTo(ParaTexts, MaxParas)}
OtherFiles == {[type |-> "text/plain", pages |-> <<>>, paragraphs |-> <<"A">>],
               [type |-> "application/msword", pages |-> <<PageText("A")>>,
                paragraphs |-> <<"A">>]}

Files == PdfFiles \cup DocxFiles \cup OtherFiles

ApiKeys == {"", "key"}

\* The example object of the specification and the same object in fences
ExampleObject == "{\"summary\":\"S\",\"highlights\":[],\"glossary\":{}}"
FencedExample == "~~~json\n" \o ExampleObject \o "\n~~~"

\* Replies of the service in the runs of the whole application
AppReplies ==
    {"Hello, this is not JSON",
     "  ~~~json\nnot json\n~~~\n",
     ExampleObject,
     FencedExample,
     "{\"summary\":\"S\",\"highlights\":[{\"clause\":\"A\",\"description\":\"B\"},{\"clause\":\"C\",\"description\":\"D\"}]}",
     "{\"highlights\":[{\"clause\":\"A\"},1],\"glossary\":{\"T\":\"E\"}}",
     "{\"summary\":\"S\",\"highlights\":\"H\",\"glossary\":\"G\"}",
     "[{\"summary\":\"S\"}]",
     "~~~json\n[1]\n~~~",
     "\"S\"",
     "7",
     "true",
     "null"}

-----------------------------------------------------------------------------
(* The script.  Streamlit runs it from the top on every user interaction;  *)
(* a run ends at pc = "idle" (waiting for the user) or "stopped".          *)

Unset == [t |-> "unset", s |-> "", n |-> 0, keys |-> <<>>, items |-> <<>>]

KeyError == "Gemini API key not found. Please set GEMINI_API_KEY."
UnsupportedError == "Unsupported file format."
EmptyError == "No text extracted from the document."

PageHead == <<Elem("title", "Legal Document Summarizer"),
              Elem("caption", "Upload a legal document (PDF or DOCX)"),
              Elem("file_uploader", "Upload your document")>>

Preview(text) == <<Elem("subheader", "Document Preview"),
                   Elem("text_area", text),
                   Elem("button", "Summarize Document")>>

\* Extract without the empty check
Extract_NoEmptyCheck(file) ==
    IF file.type \notin {PdfType, DocxType}
    THEN [error |-> UnsupportedError, text |-> ""]
    ELSE [error |-> "",
          text |-> IF file.type = PdfType
                   THEN extract_text_from_pdf(file)
                   ELSE extract_text_from_docx(file)]

\* main, from the type dispatch to the empty check: the error reported
\* ("" when none) and the text extracted
Extract(file) ==
    IF file.type \notin {PdfType, DocxType}
    THEN [error |-> UnsupportedError, text |-> ""]
    ELSE LET text == IF file.type = PdfType
                     THEN extract_text_from_pdf(file)
                     ELSE extract_text_from_docx(file)
         IN IF Strip(text) = ""
            THEN [error |-> EmptyError, text |-> text]
            ELSE [error |-> "", text |-> text]

Init ==
    /\ api_key \in ApiKeys
    /\ uploaded_file = NoFile
    /\ pc = "main"
    /\ clicked = FALSE
    /\ document_text = ""
    /\ screen = <<>>
    /\ response_text = ""
    /\ clean_text = ""
    /\ result = Unset
    /\ raised = ""
    /\ requests = 0
    /\ clicks = 0
    /\ runs = 0

\* What a new run of the script starts from
StartRun(click) ==
    /\ pc' = "main"
    /\ clicked' = click
    /\ document_text' = ""
    /\ screen' = <<>>
    /\ response_text' = ""
    /\ clean_text' = ""
    /\ result' = Unset
    /\ raised' = ""
    /\ runs' = runs + 1

\* The user puts a file into the uploader
Upload ==
    /\ pc = "idle"
    /\ runs < MaxRuns
    /\ Shows(PageHead[3])
    /\ \E f \in Files : uploaded_file' = f
    /\ StartRun(FALSE)
    /\ UNCHANGED <<api_key, requests, clicks>>

\* The user presses "Summarize Document"
ClickSummarize ==
    /\ pc = "idle"
    /\ runs < MaxRuns
    /\ Shows(Elem("button", "Summarize Document"))
    /\ clicks' = clicks + 1
    /\ StartRun(TRUE)
    /\ UNCHANGED <<api_key, uploaded_file, requests>>

\* The script from its top to the button: the key check, the page head,
\* extraction, the two error exits and the preview
MainScript ==
    /\ pc = "main"
    /\ IF api_key = ""
       THEN /\ screen' = <<Elem("error", KeyError)>>
            /\ pc' = "stopped"
            /\ UNCHANGED document_text
       ELSE IF uploaded_file = NoFile
       THEN /\ screen' = PageHead
            /\ pc' = "idle"
            /\ UNCHANGED document_text
       ELSE LET x == Extract(uploaded_file)
            IN IF x.error # ""
               THEN /\ screen' = Append(PageHead, Elem("error", x.error))
                    /\ document_text' = x.text
                    /\ pc' = "idle"
               ELSE /\ screen' = PageHead \o Preview(x.text)
                    /\ document_text' = x.text
                    /\ pc' = IF clicked THEN "call" ELSE "idle"
    /\ UNCHANGED <<api_key, uploaded_file, clicked, response_text, clean_text,
                   result, raised, requests, clicks, runs>>

\* call_gemini_api up to generate_content: the request goes out
CallGemini ==
    /\ pc = "call"
    /\ requests' = requests + 1
    /\ screen' = Append(screen, Elem("spinner", "Calling Gemini..."))
    /\ pc' = "awaiting"
    /\ UNCHANGED <<api_key, uploaded_file, clicked, document_text,
                   response_text, clean_text, result, raised, clicks, runs>>

\* generate_content returns a reply
ServiceReply ==
    /\ pc = "awaiting"
    /\ \E r \in AppReplies : response_text' = r
    /\ pc' = "reply"
    /\ UNCHANGED <<api_key, uploaded_file, clicked, document_text, screen,
                   clean_text, result, raised, requests, clicks, runs>>

\* ServiceError with a retry: the failed call is issued again
ServiceError_Retry ==
    /\ pc = "awaiting"
    /\ pc' = "call"
    /\ UNCHANGED <<api_key, uploaded_file, clicked, document_text, screen,
                   response_text, clean_text, result, raised, requests,
                   clicks, runs>>

\* generate_content raises: nothing catches it and the run ends
ServiceError ==
    /\ pc = "awaiting"
    /\ raised' = "ServiceError"
    /\ screen' = Append(screen, Elem("exception", "ServiceError"))
    /\ pc' = "idle"
    /\ UNCHANGED <<api_key, uploaded_file, clicked, document_text,
                   response_text, clean_text, result, requests, clicks, runs>>

\* return safe_parse_json(response.text), assigned to result
Normalize ==
    /\ pc = "reply"
    /\ LET parsed == safe_parse_json(response_text)
       IN /\ result' = parsed.value
          /\ screen' = IF parsed.warned
                       THEN Append(screen, Elem("error", ParseWarning))
                       ELSE screen
    /\ clean_text' = CleanText(response_text)
    /\ pc' = "render"
    /\ UNCHANGED <<api_key, uploaded_file, clicked, document_text,
                   response_text, raised, requests, clicks, runs>>

\* The three sections of main.  result.get raises AttributeError when
\* result is not a dict, after the first subheader is on the page.
RenderResult ==
    /\ pc = "render"
    /\ IF IsDict(result)
       THEN /\ screen' = screen \o
                 <<Elem("subheader", "Summary"),
                   ElemVal("write", DictGet(result, "summary",
                                            PyStr("No summary found."))),
                   Elem("subheader", "Highlights"),
                   render_highlights(DictGet(result, "highlights", PyNone)),
                   Elem("subheader", "Glossary"),
                   render_glossary(DictGet(result, "glossary", PyNone))>>
            /\ UNCHANGED raised
       ELSE /\ screen' = screen \o
                 <<Elem("subheader", "Summary"),
                   Elem("exception", "AttributeError")>>
            /\ raised' = "AttributeError"
    /\ pc' = "idle"
    /\ UNCHANGED <<api_key, uploaded_file, clicked, document_text,
                   response_text, clean_text, result, requests, clicks, runs>>

Next ==
    \/ Upload
    \/ ClickSummarize
    \/ MainScript
    \/ CallGemini
    \/ ServiceReply
    \/ ServiceError
    \/ Normalize
    \/ RenderResult

Spec == Init /\ [][Next]_vars

-----------------------------------------------------------------------------
(* The normalizer on its own: the run stands where the reply has just      *)
(* arrived, the reply is drawn from a larger set, and the run normalizes   *)
(* and renders it.                                                         *)

\* Lines a reply can be made of, with fences at their start, end and middle
LinePieces == {"~~~", "~~~json", "x", "x~~~", "~~~x", "a~b", "~~~~"}

FenceTexts == {Join(ls, "\n") : ls \in SeqsUpTo(LinePieces, MaxLines)}

SummaryFields == {"", "\"summary\":\"S\"", "\"summary\":\"a ~~~ b~~~\""}
HighlightsFields ==
    {"",
     "\"highlights\":null",
     "\"highlights\":\"H\"",
     "\"highlights\":[]",
     "\"highlights\":[{\"clause\":\"A\",\"description\":\"B\"},{\"clause\":\"C\",\"description\":\"D\"}]",
     "\"highlights\":[{\"clause\":\"A\"},1]",
     "\"highlights\":7"}
GlossaryFields ==
    {"",
     "\"glossary\":null",
     "\"glossary\":\"G\"",
     "\"glossary\":{}",
     "\"glossary\":{\"T\":\"E\"}",
     "\"glossary\":[\"T\"]"}

NonEmpty(x) == x # ""

\* A JSON object with the given members, on one line or one member a line
ObjectText(sf, hf, gf, pretty) ==
    LET members == SelectSeq(<<sf, hf, gf>>, NonEmpty)
    IN IF pretty
       THEN "{\n  " \o Join(members, ",\n  ") \o "\n}"
       ELSE "{" \o Join(members, ",") \o "}"

ObjectTexts == {ObjectText(sf, hf, gf, pretty) :
                   sf \in SummaryFields, hf \in HighlightsFields,
                   gf \in GlossaryFields, pretty \in BOOLEAN}

NonObjectTexts == {"[]", "[1]", "[{\"summary\":\"S\"}]", "\"S\"", "7", "-3",
                   "true", "false", "null"}

NonJsonTexts == {"Hello, this is not JSON", "", "{\"summary\":\"S\"",
                 "{\"summary\":\"S\",}", "{summary:\"S\"}",
                 "{\"summary\":\"S\"} done", "Summary: S\n~~~x", "json"}

Openers == {"", "~~~json\n", "~~~\n", "~~~JSON\n", " \n~~~json\n"}
Closers == {"", "\n~~~", "\n~~~\n "}

Replies ==
    FenceTexts \cup
    {open \o body \o close :
        open \in Openers,
        body \in ObjectTexts \cup NonObjectTexts \cup NonJsonTexts,
        close \in Closers}

SampleFile == [type |-> DocxType, pages |-> <<>>, paragraphs |-> <<"A">>]

InitNormalize ==
    /\ api_key = "key"
    /\ uploaded_file = SampleFile
    /\ pc = "reply"
    /\ clicked = TRUE
    /\ document_text = Extract(SampleFile).text
    /\ screen = Append(PageHead \o Preview(Extract(SampleFile).text),
                       Elem("spinner", "Calling Gemini..."))
    /\ response_text \in Replies
    /\ clean_text = ""
    /\ result = Unset
    /\ raised = ""
    /\ requests = 1
    /\ clicks = 1
    /\ runs = 2

NextNormalize == Normalize \/ RenderResult

SpecNormalize == InitNormalize /\ [][NextNormalize]_vars

-----------------------------------------------------------------------------
(* Vocabulary of the properties *)

\* safe_parse_json has put its warning on the page
Warned == Shows(Elem("error", ParseWarning))

\* This run has assigned result
Normalized == result # Unset

\* This run has rendered its three sections
Rendered == pc = "idle" /\ Normalized /\ raised = ""

\* What json.loads makes of the fence-stripped reply
Loaded == JsonLoads(CleanText(response_text))

\* The elements render_highlights and render_glossary have drawn
HighlightsShown == screen[Len(screen) - 2]
GlossaryShown == screen[Len(screen)]

AllSpace(s) == \A i \in 1..Len(s) : IsSpace(Ch(s, i))

\* r is s without its leading and trailing whitespace
IsTrimOf(r, s) ==
    /\ r = "" \/ (~IsSpace(Ch(r, 1)) /\ ~IsSpace(Ch(r, Len(r))))
    /\ \E i \in 1..(Len(s) + 1) : \E j \in (i - 1)..Len(s) :
          /\ SubSeq(s, i, j) = r
          /\ AllSpace(SubSeq(s, 1, i - 1))
          /\ AllSpace(SubSeq(s, j + 1, Len(s)))

\* The lines of s, split at every newline
RECURSIVE SplitLines(_)
SplitLines(s) ==
    LET breaks == {j \in 1..Len(s) : Ch(s, j) = "\n"}
    IN IF breaks = {} THEN <<s>>
       ELSE LET b == CHOOSE j \in breaks : \A k \in breaks : j <= k
            IN <<SubSeq(s, 1, b - 1)>> \o SplitLines(SubSeq(s, b + 1, Len(s)))

\* A line without the fence that starts it and the fence that ends it
WithoutLeadingFence(line) ==
    IF StartsWithAt(line, 1, "~~~json") THEN SubSeq(line, 8, Len(line))
    ELSE IF StartsWithAt(line, 1, "~~~") THEN SubSeq(line, 4, Len(line))
    ELSE line
WithoutTrailingFence(line) ==
    IF StartsWithAt(line, Len(line) - 2, "~~~")
    THEN SubSeq(line, 1, Len(line) - 3)
    ELSE line
WithoutFences(line) == WithoutTrailingFence(WithoutLeadingFence(line))

\* s with the fences removed from every line
WithoutLineFences(s) ==
    LET lines == SplitLines(s)
    IN Join([k \in 1..Len(lines) |-> WithoutFences(lines[k])], "\n")

\* The file in the uploader has been through the extraction of this run
Extracted == pc \notin {"main", "stopped"} /\ uploaded_file # NoFile

\* The texts a PDF's pages contribute, in page order
PageTexts(pages) ==
    LET kept == SelectSeq(pages, Truthy)
    IN [k \in 1..Len(kept) |-> kept[k].s]

\* The file is one main refuses: a type it does not know or no text in it
Unsupported(file) == file.type # PdfType /\ file.type # DocxType
Blank(file) ==
    \/ file.type = PdfType /\ AllSpace(Join(PageTexts(file.pages), "\n"))
    \/ file.type = DocxType /\ AllSpace(Join(file.paragraphs, "\n"))

-----------------------------------------------------------------------------
(* C1: a reply whose fence-stripped text is not JSON makes safe_parse_json *)
(* warn and return, without raising, the record whose summary is the raw   *)
(* reply exactly as received and whose highlights and glossary are None.   *)
C1_NonJsonKeepsRawReply ==
    (Normalized /\ ~Loaded.ok) =>
        /\ Warned
        /\ raised = ""
        /\ IsDict(result)
        /\ result.keys = <<"summary", "highlights", "glossary">>
        /\ DictGet(result, "summary", Unset) = PyStr(response_text)
        /\ DictGet(result, "highlights", Unset) = PyNone
        /\ DictGet(result, "glossary", Unset) = PyNone

\* A fenced, padded non-JSON reply has been normalized and rendered
C1_Witness ==
    /\ Rendered
    /\ ~Loaded.ok
    /\ Strip(response_text) # response_text
    /\ CleanText(response_text) # Strip(response_text)
    /\ Shows(ElemVal("write", PyStr(response_text)))

(* C2: a reply whose cleaned text is valid JSON but not an object counts   *)
(* as a parse failure: the warning is shown, the degraded record is        *)
(* returned and the run ends without an exception.                         *)
C2_NonObjectIsParseFailure ==
    (Normalized /\ Loaded.ok /\ ~IsDict(Loaded.val)) =>
        /\ Warned
        /\ result = DegradedRecord(response_text)
        /\ raised = ""

(* C3: a valid JSON object between an opening fence line, with or without  *)
(* the tag json, and a closing fence line is normalized to the record of   *)
(* the object alone, without a warning; the fenced example object yields   *)
(* summary "S", highlights [] and glossary {}.                             *)
C3_FencedObjectParsesAsBare ==
    /\ \A open \in {"~~~", "~~~json"} : \A J \in ObjectTexts :
          (Normalized /\ response_text = open \o "\n" \o J \o "\n~~~") =>
              /\ JsonLoads(J).ok
              /\ IsDict(result)
              /\ result = JsonLoads(J).val
              /\ ~Warned
    /\ (Normalized /\ response_text = FencedExample) =>
          result = PyDict(<<"summary", "highlights", "glossary">>,
                          <<PyStr("S"), PyList(<<>>), PyDict(<<>>, <<>>)>>)

\* The fenced example object has been normalized
C3_Witness ==
    /\ Normalized
    /\ response_text = FencedExample
    /\ IsDict(result)
    /\ ~Warned

\* s without a fence at its very start and a fence at its very end
OuterFencesOnly(s) == WithoutFences(s)

(* C4 as stated: only a fence at the very start and a fence at the very    *)
(* end of the reply are removed; a fence at the start or end of an         *)
(* interior line reaches the JSON parser unchanged.                        *)
C4_OnlyOuterFencesRemoved ==
    Normalized => clean_text = OuterFencesOnly(Strip(response_text))

(* C4 as amended: from the trimmed reply, the fence (with its optional tag *)
(* json) that starts a line and the fence that ends a line are removed on  *)
(* every line, the first, the last and the interior ones; every other      *)
(* backquote sequence is left as it is.                                    *)
C4_FencesRemovedOnEveryLine ==
    Normalized => clean_text = WithoutLineFences(Strip(response_text))

\* A fence that starts an interior line has been removed while a backquote
\* in the middle of a line was kept
C4_Witness ==
    /\ Normalized
    /\ response_text = "a~b\n~~~x\nx"
    /\ clean_text = "a~b\nx\nx"

(* C5: when the cleaned reply is a JSON object, the record is that object: *)
(* summary, highlights and glossary are the values of its keys, a missing  *)
(* key is missing in the record and reads as None, shown as "nothing       *)
(* available" and never as an empty table, and no warning is shown.        *)
C5_ObjectFieldsTakenAsIs ==
    /\ (Normalized /\ Loaded.ok /\ IsDict(Loaded.val)) =>
          /\ result = Loaded.val
          /\ ~Warned
          /\ raised = ""
          /\ (Rendered /\ ~HasKey(Loaded.val, "highlights")) =>
                HighlightsShown = Elem("info", NoHighlights)
          /\ (Rendered /\ ~HasKey(Loaded.val, "glossary")) =>
                GlossaryShown = Elem("info", NoGlossary)
    /\ \A sf \in SummaryFields, hf \in HighlightsFields,
          gf \in GlossaryFields, pretty \in BOOLEAN :
          (Normalized /\ response_text = ObjectText(sf, hf, gf, pretty)) =>
              /\ IsDict(result)
              /\ HasKey(result, "summary") <=> sf # ""
              /\ HasKey(result, "highlights") <=> hf # ""
              /\ HasKey(result, "glossary") <=> gf # ""
    /\ (Normalized /\ response_text = ExampleObject) =>
          result = PyDict(<<"summary", "highlights", "glossary">>,
                          <<PyStr("S"), PyList(<<>>), PyDict(<<>>, <<>>)>>)
    /\ (Normalized /\ response_text = "{\"summary\":\"S\",\"highlights\":\"H\"}") =>
          result = PyDict(<<"summary", "highlights">>,
                          <<PyStr("S"), PyStr("H")>>)

\* An object without the glossary key has been normalized and rendered
C5_Witness ==
    /\ Rendered
    /\ response_text = "{\"summary\":\"S\",\"highlights\":\"H\"}"
    /\ ~HasKey(result, "glossary")
    /\ GlossaryShown = Elem("info", NoGlossary)

(* C6: a file whose declared type is neither PDF nor DOCX, or whose        *)
(* extracted text is empty after trimming, gets an error on the page and   *)
(* nothing more: no preview, no button, no request to the service.         *)
C6_RejectedFileStopsProcessing ==
    (Extracted /\ (Unsupported(uploaded_file) \/ Blank(uploaded_file))) =>
        /\ pc = "idle"
        /\ Shows(Elem("error", IF Unsupported(uploaded_file)
                               THEN UnsupportedError ELSE EmptyError))
        /\ ~ShowsKind("text_area")
        /\ ~ShowsKind("button")
        /\ ~ShowsKind("spinner")
        /\ response_text = ""
        /\ result = Unset

\* A PDF whose pages give no text has been refused
C6_Witness ==
    /\ Extracted
    /\ uploaded_file.type = PdfType
    /\ uploaded_file.pages = <<NoPageText, PageText("")>>
    /\ Shows(Elem("error", EmptyError))

(* C7: every press of the button issues exactly one request, and only once *)
(* a non-empty text is extracted and previewed; a failed request ends the  *)
(* run with the failure, without a second request, a normalization or a    *)
(* rendered section.                                                       *)
C7_OneRequestPerAction ==
    /\ requests <= clicks
    /\ clicks <= requests + 1
    /\ pc \in {"idle", "awaiting", "reply", "render"} => requests = clicks
    /\ pc \in {"awaiting", "reply", "render"} =>
          /\ clicked
          /\ ~AllSpace(document_text)
          /\ Shows(Elem("text_area", document_text))
    /\ raised = "ServiceError" =>
          /\ pc = "idle"
          /\ requests = clicks
          /\ ~Normalized
          /\ clean_text = ""
          /\ ~Warned
          /\ ~ShowsKind("write")
          /\ ~ShowsKind("table")
          /\ ~ShowsKind("markdown")
          /\ ~ShowsKind("info")

\* The second press of the button has failed after its one request
C7_Witness ==
    /\ raised = "ServiceError"
    /\ clicks = 2
    /\ requests = 2

(* C8: highlights and glossary are each drawn in exactly one of three      *)
(* ways: a table for the structured shape (a list of objects, a mapping),  *)
(* free text for a string, "nothing available" for None; a highlights list *)
(* with an element that is not an object is drawn as "nothing available",  *)
(* and nothing raises.                                                     *)
C8_RenderingByShape ==
    Rendered =>
        LET h == DictGet(result, "highlights", PyNone)
            g == DictGet(result, "glossary", PyNone)
        IN /\ HighlightsShown.w \in {"table", "markdown", "info"}
           /\ GlossaryShown.w \in {"table", "markdown", "info"}
           /\ (IsList(h) /\ \A k \in 1..Len(h.items) : IsDict(h.items[k])) =>
                 HighlightsShown = ElemVal("table", h)
           /\ IsStr(h) => HighlightsShown = Elem("markdown", h.s)
           /\ h = PyNone => HighlightsShown = Elem("info", NoHighlights)
           /\ (IsList(h) /\ \E k \in 1..Len(h.items) : ~IsDict(h.items[k])) =>
                 HighlightsShown = Elem("info", NoHighlights)
           /\ IsDict(g) =>
                 /\ GlossaryShown.w = "table"
                 /\ Len(GlossaryShown.val.items) = Len(g.keys)
                 /\ \A k \in 1..Len(g.keys) :
                       GlossaryShown.val.items[k].items =
                           <<PyStr(g.keys[k]), g.items[k]>>
           /\ IsStr(g) => GlossaryShown = Elem("markdown", g.s)
           /\ g = PyNone => GlossaryShown = Elem("info", NoGlossary)

\* A highlights list with a non-object element is drawn as "nothing
\* available" next to a glossary table
C8_Witness ==
    /\ Rendered
    /\ DictGet(result, "highlights", PyNone) =
          PyList(<<PyDict(<<"clause">>, <<PyStr("A")>>), PyInt(1)>>)
    /\ HighlightsShown = Elem("info", NoHighlights)
    /\ GlossaryShown.w = "table"

(* C9 as stated: the text of a DOCX is its paragraph texts in order, one a *)
(* line, and every empty paragraph, the first and the last included, is an *)
(* empty line of it.                                                       *)
C9_EveryEmptyParagraphIsALine ==
    (Extracted /\ uploaded_file.type = DocxType) =>
        LET lines == SplitLines(document_text)
            paras == uploaded_file.paragraphs
        IN /\ Len(lines) = Len(paras)
           /\ \A k \in 1..Len(paras) : paras[k] = "" => lines[k] = ""

(* C9 as amended: the text of a DOCX is the newline-join of its paragraph  *)
(* texts in order with leading and trailing whitespace trimmed; an empty   *)
(* paragraph is an empty line of it when it lies between two paragraphs    *)
(* that are not blank, and is dropped at the start and at the end.         *)
C9_TrimmedJoinOfParagraphs ==
    (Extracted /\ uploaded_file.type = DocxType) =>
        IsTrimOf(document_text, Join(uploaded_file.paragraphs, "\n"))

\* An empty paragraph in the middle is kept as an empty line
C9_Witness ==
    /\ Extracted
    /\ uploaded_file.type = DocxType
    /\ uploaded_file.paragraphs = <<"A", "", " B ">>
    /\ document_text = "A\n\n B"

(* C10: the text of a PDF is the trimmed newline-join of the texts of its  *)
(* pages in page order; a page without text (None or "") adds nothing, not *)
(* even a blank line.                                                      *)
C10_TrimmedJoinOfPageTexts ==
    (Extracted /\ uploaded_file.type = PdfType) =>
        IsTrimOf(document_text, Join(PageTexts(uploaded_file.pages), "\n"))

\* A page without text between two pages with text leaves no blank line
C10_Witness ==
    /\ Extracted
    /\ uploaded_file.type = PdfType
    /\ uploaded_file.pages = <<PageText("A"), NoPageText, PageText(" B\n")>>
    /\ document_text = "A\n B"

====
